---- MODULE Spec2Model ----
(***************************************************************************)
(* Model of the Portale Alloggiati SOAP client (PortaleAlloggiatiClient)   *)
(* and of the validate-then-submit flow that drives it, as given in        *)
(* ALLOGGIAT_WEB_SOAP_API_DOCUMENTATION.md.                                *)
(*                                                                         *)
(* Strings that the code inspects character by character (field values,    *)
(* element tags, element texts) are tuples of one-character strings.       *)
(***************************************************************************)
EXTENDS Integers, Sequences, FiniteSets, TLC

\* ------------------------------------------------------------------ bounds
MaxTime == 2          \* the clock runs over 0..MaxTime
TokenLifetime == 2    \* expires - issued of a token the service hands out
SafetyMargin == 1     \* margin before expires_at at which a token is stale

\* the runs of the flow that share one client, as two threads would
Runs == {1, 2}

\* ----------------------------------------------------------- Python values
NoText == <<>>                       \* elem.text of an empty element (None)
ExcNames == {"IndexError", "ValueError", "TypeError", "ParseError",
             "Timeout", "ConnectionError"}
\* an exception leaving a function whose normal result is a string
RaisedStr(e) == <<e>>
IsRaisedStr(v) == Len(v) = 1 /\ v[1] \in ExcNames
\* an exception leaving a function whose normal result is a dict
Raised(e) == [raised |-> e]
IsRaised(v) == "raised" \in DOMAIN v

\* --------------------------------------------------------- string helpers
Repeat(c, n) == [i \in 1..n |-> c]

Min(a, b) == IF a < b THEN a ELSE b

\* 'sub in s' of Python for two strings
Contains(sub, s) ==
    \E i \in 1..(Len(s) - Len(sub) + 1) : SubSeq(s, i, i + Len(sub) - 1) = sub

\* str.lower() restricted to the letters the texts of the model use
LowerChar(c) ==
    CASE c = "T" -> "t" [] c = "R" -> "r" [] c = "U" -> "u" [] c = "E" -> "e"
      [] c = "F" -> "f" [] c = "A" -> "a" [] c = "L" -> "l" [] c = "S" -> "s"
      [] OTHER -> c
Lower(s) == [i \in 1..Len(s) |-> LowerChar(s[i])]

\* str.split(sep) for a one-character separator
RECURSIVE Split(_, _)
Split(s, sep) ==
    IF \A i \in 1..Len(s) : s[i] # sep THEN <<s>>
    ELSE LET k == CHOOSE i \in 1..Len(s) :
                      s[i] = sep /\ \A j \in 1..(i - 1) : s[j] # sep
         IN  <<SubSeq(s, 1, k - 1)>> \o Split(SubSeq(s, k + 1, Len(s)), sep)

\* ----------------------------------------------------------- format_schedina
\* pad_string: str(value)[:length].ljust(length, ' ')
pad_string(value, length) ==
    LET cut == SubSeq(value, 1, Min(Len(value), length))
    IN  cut \o Repeat(" ", length - Len(cut))

\* format_date: YYYY-MM-DD becomes DD/MM/YYYY, anything without '-' is kept
format_date(date_str) ==
    IF Contains(<<"-">>, date_str)
    THEN LET parts == Split(date_str, "-")
         IN  IF Len(parts) < 3 THEN RaisedStr("IndexError")
             ELSE parts[3] \o <<"/">> \o parts[2] \o <<"/">> \o parts[1]
    ELSE date_str

\* one entry per line of format_schedina: key, how it is rendered, the
\* default guest_data.get falls back to, and the width given to pad_string
FieldTable == <<
  [key |-> "TipoAlloggiato",     how |-> "pad",  dflt |-> <<"0","1">>, width |-> 2],
  [key |-> "DataArrivo",         how |-> "date",
       dflt |-> <<"2","0","2","4","-","0","1","-","0","1">>, width |-> 10],
  [key |-> "GiorniPermanenza",   how |-> "pad",  dflt |-> <<"0","1">>, width |-> 2],
  [key |-> "Cognome",            how |-> "pad",  dflt |-> <<>>, width |-> 50],
  [key |-> "Nome",               how |-> "pad",  dflt |-> <<>>, width |-> 30],
  [key |-> "Sesso",              how |-> "str",  dflt |-> <<"1">>, width |-> 1],
  [key |-> "DataNascita",        how |-> "date",
       dflt |-> <<"1","9","9","0","-","0","1","-","0","1">>, width |-> 10],
  [key |-> "ComuneNascita",      how |-> "pad",  dflt |-> <<>>, width |-> 9],
  [key |-> "ProvinciaNascita",   how |-> "pad",  dflt |-> <<>>, width |-> 2],
  [key |-> "StatoNascita",       how |-> "pad",  dflt |-> <<"I","T">>, width |-> 9],
  [key |-> "Cittadinanza",       how |-> "pad",  dflt |-> <<"I","T">>, width |-> 9],
  [key |-> "TipoDocumento",      how |-> "pad",  dflt |-> <<"0","1">>, width |-> 2],
  [key |-> "NumeroDocumento",    how |-> "pad",  dflt |-> <<>>, width |-> 20],
  [key |-> "DataRilascio",       how |-> "date",
       dflt |-> <<"2","0","2","0","-","0","1","-","0","1">>, width |-> 10],
  [key |-> "AutoritaRilascio",   how |-> "pad",  dflt |-> <<>>, width |-> 40],
  [key |-> "ComuneResidenza",    how |-> "pad",  dflt |-> <<>>, width |-> 9],
  [key |-> "ProvinciaResidenza", how |-> "pad",  dflt |-> <<>>, width |-> 2],
  [key |-> "StatoResidenza",     how |-> "pad",  dflt |-> <<"I","T">>, width |-> 9],
  [key |-> "IndirizzoResidenza", how |-> "pad",  dflt |-> <<>>, width |-> 50],
  [key |-> "Telefono",           how |-> "pad",  dflt |-> <<>>, width |-> 15],
  [key |-> "Email",              how |-> "pad",  dflt |-> <<>>, width |-> 50] >>

FieldKeys == {FieldTable[i].key : i \in 1..Len(FieldTable)}

\* guest_data.get(key, default): guest_data is a function on the keys it has
Get(guest_data, key, dflt) ==
    IF key \in DOMAIN guest_data THEN guest_data[key] ELSE dflt

FormatField(guest_data, f) ==
    LET v == Get(guest_data, f.key, f.dflt)
    IN  CASE f.how = "pad"  -> pad_string(v, f.width)
          [] f.how = "date" -> format_date(v)
          [] OTHER          -> v

\* the pieces of the f-string from field i on, one after another
RECURSIVE FormatFrom(_, _)
FormatFrom(guest_data, i) ==
    IF i > Len(FieldTable) THEN <<>>
    ELSE FormatField(guest_data, FieldTable[i]) \o FormatFrom(guest_data, i + 1)

\* the fields are formatted in the order of the f-string; the first one that
\* raises ends the call with its exception
format_schedina(guest_data) ==
    LET raising == {i \in 1..Len(FieldTable) :
                       IsRaisedStr(FormatField(guest_data, FieldTable[i]))}
    IN  IF raising # {}
        THEN FormatField(guest_data,
                         FieldTable[CHOOSE i \in raising :
                                        \A j \in raising : i <= j])
        ELSE FormatFrom(guest_data, 1)

\* ------------------------------------------------------------ the guests
\* guest_data of the usage example
GuestRossi == [
  TipoAlloggiato     |-> <<"0","1">>,
  DataArrivo         |-> <<"2","0","2","4","-","0","1","-","1","5">>,
  GiorniPermanenza   |-> <<"0","3">>,
  Cognome            |-> <<"R","o","s","s","i">>,
  Nome               |-> <<"M","a","r","i","o">>,
  Sesso              |-> <<"1">>,
  DataNascita        |-> <<"1","9","9","0","-","0","1","-","0","1">>,
  ComuneNascita      |-> <<"H","5","0","1">>,
  ProvinciaNascita   |-> <<"R","M">>,
  StatoNascita       |-> <<"I","T">>,
  Cittadinanza       |-> <<"I","T">>,
  TipoDocumento      |-> <<"0","1">>,
  NumeroDocumento    |-> <<"A","B","1","2","3","4","5","6","7">>,
  DataRilascio       |-> <<"2","0","2","0","-","0","1","-","0","1">>,
  AutoritaRilascio   |-> <<"C","o","m","u","n","e"," ","d","i"," ","R","o","m","a">>,
  ComuneResidenza    |-> <<"H","5","0","1">>,
  ProvinciaResidenza |-> <<"R","M">>,
  StatoResidenza     |-> <<"I","T">>,
  IndirizzoResidenza |-> <<"V","i","a"," ","M","i","l","a","n","o"," ","4","5","6">>,
  Telefono           |-> <<"+","3","9","3","4","0","1","2","3","4","5","6","7">>,
  Email              |-> <<"m","a","r","i","o",".","r","o","s","s","i","@",
                           "e","m","a","i","l",".","c","o","m">> ]

\* a dict without the given key
Without(guest_data, key) ==
    [k \in DOMAIN guest_data \ {key} |-> guest_data[k]]

GuestAnna == [GuestRossi EXCEPT !["Nome"] = <<"A","n","n","a">>,
                                !["Sesso"] = <<"2">>]
GuestNoCognome == Without(GuestAnna, "Cognome")
GuestNoDocumento == Without(GuestRossi, "NumeroDocumento")
GuestBadDate == [GuestRossi EXCEPT
                    !["DataArrivo"] = <<"2","0","2","4","-","0","1">>]

\* the keys of FieldTable a guest_data dict does not carry
MissingFields(guest_data) == FieldKeys \ DOMAIN guest_data

\* the batches a run may be started with
Batches == { <<GuestRossi, GuestAnna, GuestRossi>>,
             <<GuestRossi, GuestNoCognome, GuestNoDocumento>> }

BatchHasMissing(b) == \E i \in 1..Len(b) : MissingFields(b[i]) # {}

\* schedine_lines built from a batch, one format_schedina call per guest
FormatBatch(b) == [i \in 1..Len(b) |-> format_schedina(b[i])]
FormatRaises(b) == \E i \in 1..Len(b) : IsRaisedStr(format_schedina(b[i]))

\* ------------------------------------------------------------ responses
\* What requests.post gives back: an exception (kind Timeout or
\* ConnectionError), or a body that ET.fromstring rejects (unparsable), or a
\* body whose elements, in document order, are elems.
Elem(tag, text) == [tag |-> tag, text |-> text]
Body(elems) == [kind |-> "xml", elems |-> elems]
Failure(kind) == [kind |-> kind, elems |-> <<>>]
NoResp == Failure("none")

T_token   == <<"t","o","k","e","n">>
T_issued  == <<"i","s","s","u","e","d">>
T_expires == <<"e","x","p","i","r","e","s">>
T_esito   == <<"e","s","i","t","o">>
T_result  == <<"r","e","s","u","l","t">>
T_ErroreCod == <<"E","r","r","o","r","e","C","o","d">>
T_ErroreDes == <<"E","r","r","o","r","e","D","e","s">>
T_SchedineValide ==
    <<"S","c","h","e","d","i","n","e","V","a","l","i","d","e">>
T_GenerateTokenResult ==
    <<"G","e","n","e","r","a","t","e","T","o","k","e","n","R","e","s","u","l","t">>

X_true  == <<"t","r","u","e">>
X_True  == <<"T","r","u","e">>
X_false == <<"f","a","l","s","e">>
X_E01   == <<"E","0","1">>
X_des   == <<"b","a","d"," ","p","l","a","c","e">>

Digits == <<"0","1","2","3","4","5","6","7","8","9">>
DigitChar(n) == Digits[n + 1]
IsDigit(c) == \E n \in 0..9 : Digits[n + 1] = c
DigitVal(c) == CHOOSE n \in 0..9 : Digits[n + 1] = c

\* int(text): TypeError on None, ValueError on a non-number
RECURSIVE IntOf(_)
IntOf(text) ==
    IF Len(text) = 1 THEN DigitVal(text[1])
    ELSE 10 * IntOf(SubSeq(text, 1, Len(text) - 1)) + DigitVal(text[Len(text)])
IntRaises(text) ==
    IF text = NoText THEN "TypeError"
    ELSE IF \E i \in 1..Len(text) : ~IsDigit(text[i]) THEN "ValueError"
    ELSE "no"

\* the token string the service hands out with its k-th token
Token(k) == <<"t", DigitChar(k)>>

\* _parse_token_response, after ET.fromstring: the first element whose tag
\* contains 'token' decides; its text becomes self.token
parse_token_response(elems) ==
    LET hits == {i \in 1..Len(elems) : Contains(T_token, elems[i].tag)}
    IN  IF hits = {} THEN [token |-> NoText, success |-> FALSE, found |-> FALSE]
        ELSE LET i == CHOOSE h \in hits : \A g \in hits : h <= g
             IN  [token |-> elems[i].text, success |-> TRUE, found |-> TRUE]

\* the loop of _parse_test_response / _parse_send_response over root.iter(),
\* from element i on, with the dict built so far; count is the key the
\* number is stored under
RECURSIVE ParseOutcomeFrom(_, _, _, _)
ParseOutcomeFrom(elems, i, result, count) ==
    IF i > Len(elems) THEN result
    ELSE LET elem == elems[i]
         IN  IF Contains(T_SchedineValide, elem.tag)
             THEN IF IntRaises(elem.text) # "no"
                  THEN Raised(IntRaises(elem.text))
                  ELSE ParseOutcomeFrom(elems, i + 1,
                           [result EXCEPT ![count] = IntOf(elem.text)], count)
             ELSE IF Contains(T_esito, elem.tag) /\ elem.text # NoText
             THEN ParseOutcomeFrom(elems, i + 1,
                      [result EXCEPT !.esito = (Lower(elem.text) = X_true)],
                      count)
             ELSE ParseOutcomeFrom(elems, i + 1, result, count)

\* parse_test_response with a result that starts out as a success
parse_test_response_optimistic(elems) ==
    ParseOutcomeFrom(elems, 1,
        [esito |-> TRUE, schedine_valide |-> 0, dettaglio |-> <<>>],
        "schedine_valide")

parse_test_response(elems) ==
    ParseOutcomeFrom(elems, 1,
        [esito |-> FALSE, schedine_valide |-> 0, dettaglio |-> <<>>],
        "schedine_valide")

parse_send_response(elems) ==
    ParseOutcomeFrom(elems, 1,
        [esito |-> FALSE, schedine_acquisite |-> 0, dettaglio |-> <<>>],
        "schedine_acquisite")

\* the bodies the service answers GenerateToken with: the documented shape
\* with the k-th token granted until expires, the same shape with an empty
\* token and esito false, a rejection without the token element, and a body
\* with none of the expected elements
AuthGranted(k, issued, expires) == Body(<<
    Elem(T_GenerateTokenResult, NoText),
    Elem(T_issued, <<DigitChar(issued)>>),
    Elem(T_expires, <<DigitChar(expires)>>),
    Elem(T_token, Token(k)),
    Elem(T_result, NoText),
    Elem(T_esito, X_true),
    Elem(T_ErroreCod, NoText),
    Elem(T_ErroreDes, NoText) >>)

AuthRejected == Body(<<
    Elem(T_GenerateTokenResult, NoText),
    Elem(T_token, NoText),
    Elem(T_result, NoText),
    Elem(T_esito, X_false),
    Elem(T_ErroreCod, X_E01),
    Elem(T_ErroreDes, X_des) >>)

AuthRejectedNoToken == Body(<<
    Elem(T_result, NoText),
    Elem(T_esito, X_false),
    Elem(T_ErroreCod, X_E01),
    Elem(T_ErroreDes, X_des) >>)

EmptyBody == Body(<<Elem(T_result, NoText)>>)

TransportFailures == {Failure("Timeout"), Failure("ConnectionError")}

AuthRefusals ==
    TransportFailures \cup
    {Failure("unparsable"), AuthRejected, AuthRejectedNoToken, EmptyBody}

\* the bodies the service answers Test and Send with
OutcomeOk(n) == Body(<<
    Elem(T_esito, X_true),
    Elem(T_ErroreCod, NoText),
    Elem(T_ErroreDes, NoText),
    Elem(T_SchedineValide, <<DigitChar(n)>>) >>)

OutcomeRejected == Body(<<
    Elem(T_esito, X_false),
    Elem(T_ErroreCod, X_E01),
    Elem(T_ErroreDes, X_des),
    Elem(T_SchedineValide, <<"0">>) >>)

OutcomeRejectedNoCode == Body(<<
    Elem(T_esito, X_false),
    Elem(T_ErroreCod, NoText),
    Elem(T_ErroreDes, NoText) >>)

OutcomeBadCount == Body(<<
    Elem(T_esito, X_true),
    Elem(T_SchedineValide, NoText) >>)

OutcomeResponses(n) ==
    TransportFailures \cup
    {Failure("unparsable"), OutcomeOk(n), OutcomeRejected,
     OutcomeRejectedNoCode, OutcomeBadCount, EmptyBody}

\* ------------------------------------------------------------- the state
VARIABLES
    token,       \* self.token of the client the runs share
    now,         \* the clock
    srvExpires,  \* srvExpires[k]: the expires the service gave with Token(k)
    pc,          \* pc[r]: where run r of the flow stands
    batch,       \* batch[r]: the guest_data dicts run r registers
    reqs,        \* reqs[r]: the requests run r has posted, in order
    authResp,    \* authResp[r]: the response to run r's GenerateToken
    testResp,    \* testResp[r]: the response to run r's Test
    testResult,  \* testResult[r]: test_result of run r
    sendResult,  \* sendResult[r]: send_result of run r
    outcome      \* outcome[r]: how run r ended

\* one call of format_schedina and of the envelope builders on its own
VARIABLES
    guest,       \* the guest_data dict given to format_schedina
    client,      \* username, password, ws_key and token of the client
    encPc,       \* how far the call has got
    schedina,    \* what format_schedina returned
    envelope     \* the soap_envelope built last, as its parts in order

\* the AuthService of the admin frontend in one browser tab
VARIABLES
    hasStorage,  \* window and window.localStorage exist
    lsUser,      \* localStorage item 'user'
    lsToken,     \* localStorage item 'admin_token'
    clock,       \* Date.now(), in half seconds
    route,       \* where the router navigated last
    lastCall,    \* the last call of the service: what it returned and did
    sessions     \* exp of the stored token isLoggedIn() has found valid

\* the AdminHomeComponent of that tab and the router's guard
VARIABLES
    userSubject,          \* the value user$ emitted last
    subscribed,           \* AdminHomeComponent.ngOnInit has subscribed
    selectedStructureId,  \* AdminHomeComponent.selectedStructureId
    lsSelected,           \* localStorage item 'selected_structure_id'
    lastNav               \* the last navigation the router was asked for

\* one RemoteCheckinComponent
VARIABLES
    rcPending,    \* getReservationById requests without a response yet
    rcLast,       \* the response handled last
    canRegister,  \* RemoteCheckinComponent.canRegister
    clientForm,   \* clientForm: its fields pass their validators; disabled
    uploadForm,   \* uploadForm: the same of the form of the three images
    lastUpload    \* the last call of uploadReservationData

\* one CreateReservationComponent
VARIABLES
    reservationForm,  \* the values of reservationForm and the errors of
                      \* its control numberOfPeople
    rooms,            \* CreateReservationComponent.rooms
    crSaving,         \* CreateReservationComponent.saving
    crRequests,       \* the createReservation requests sent, in order
    crLast,           \* the last call of onSubmit
    crNavs            \* the requests whose response opened the dashboard

\* one DetailReservationComponent
VARIABLES
    editMode,             \* DetailReservationComponent.editMode
    saving,               \* DetailReservationComponent.saving
    reservation_status,   \* the status selected in the editor
    reservation_details,  \* the status of the reservation as loaded last
    drFormOk,             \* form.valid
    drSaves,              \* the calls of saveReservation that sent a request
    drRefresh,            \* getAdminReservationById requests not answered
    drServer              \* the status the backend holds

flowVars == <<token, now, srvExpires, pc, batch, reqs, authResp, testResp,
              testResult, sendResult, outcome>>
encVars == <<guest, client, encPc, schedina, envelope>>
webVars == <<hasStorage, lsUser, lsToken, clock, route, lastCall, sessions>>
homeVars == <<userSubject, subscribed, selectedStructureId, lsSelected,
              lastNav>>
rcVars == <<rcPending, rcLast, canRegister, clientForm, uploadForm,
            lastUpload>>
crVars == <<reservationForm, rooms, crSaving, crRequests, crLast, crNavs>>
drVars == <<editMode, saving, reservation_status, reservation_details,
            drFormOk, drSaves, drRefresh, drServer>>
compVars == <<rcVars, crVars, drVars>>
vars == <<flowVars, encVars, webVars, homeVars, compVars>>

NoResult == [none |-> TRUE]

\* the token of Token(k) is usable at time t: t < expires_at - safety_margin
Usable(tok, t) ==
    \E k \in 1..Len(srvExpires) :
        Token(k) = tok /\ t < srvExpires[k] - SafetyMargin

\* a posted request; fresh records whether its token was usable when posted
Request(op, tok, lines, fresh) ==
    [op |-> op, token |-> tok, lines |-> lines, fresh |-> fresh]

\* PortaleAlloggiatiClient.__init__ and the start of each run
FlowInit ==
    /\ token = NoText
    /\ now = 0
    /\ srvExpires = <<>>
    /\ pc = [r \in Runs |-> "start"]
    /\ batch \in [Runs -> Batches]
    /\ reqs = [r \in Runs |-> <<>>]
    /\ authResp = [r \in Runs |-> NoResp]
    /\ testResp = [r \in Runs |-> NoResp]
    /\ testResult = [r \in Runs |-> NoResult]
    /\ sendResult = [r \in Runs |-> NoResult]
    /\ outcome = [r \in Runs |-> "running"]

\* no call of the encoder under way
EncIdle ==
    /\ guest = GuestRossi
    /\ client = [username |-> <<"u">>, password |-> <<"p">>,
                 ws_key |-> <<"k">>, token |-> NoText]
    /\ encPc = "idle"
    /\ schedina = NoText
    /\ envelope = <<>>

\* a tab nobody has logged in from
NoItem == [kind |-> "none", expKind |-> "undefined", exp |-> 0]
Store(user, tok) == [user |-> user, admin_token |-> tok]
NoCall == [op |-> "none", ret |-> "none", at |-> 0,
           before |-> Store("none", NoItem), after |-> Store("none", NoItem),
           loggedOut |-> FALSE, navigated |-> "none"]
WebIdle ==
    /\ hasStorage = TRUE
    /\ lsUser = "none"
    /\ lsToken = NoItem
    /\ clock = 0
    /\ route = "/"
    /\ lastCall = NoCall
    /\ sessions = {}

\* user$ before anybody logged in, and a component not yet created
NoUser == [isUser |-> FALSE, structures |-> <<>>]
User(structures) == [isUser |-> TRUE, structures |-> structures]
NoId == 0 - 1
NoNav == [target |-> "none", guarded |-> FALSE, allowed |-> FALSE, at |-> 0,
          before |-> Store("none", NoItem), route |-> "none"]
HomeIdle ==
    /\ userSubject = NoUser
    /\ subscribed = FALSE
    /\ selectedStructureId = NoId
    /\ lsSelected = <<>>
    /\ lastNav = NoNav

\* a RemoteCheckinComponent as its constructor leaves it
Form(ok, disabled) == [ok |-> ok, disabled |-> disabled]
Missing == [kind |-> "missing", n |-> 0]
NotNumeric == [kind |-> "text", n |-> 0]
Present(n) == [kind |-> "number", n |-> n]
NoResponse == [kind |-> "none", count |-> Missing, people |-> Missing]
NoUpload == [called |-> FALSE, sent |-> FALSE, canRegister |-> FALSE,
             client |-> "none", upload |-> "none", turn |-> 0]
RcIdle ==
    /\ rcPending = 0
    /\ rcLast = NoResponse
    /\ canRegister = TRUE
    /\ clientForm = Form(FALSE, FALSE)
    /\ uploadForm = Form(FALSE, FALSE)
    /\ lastUpload = NoUpload

\* a CreateReservationComponent as its constructor leaves it
NoRoom == [kind |-> "empty", named |-> FALSE, capacity |-> Missing]
People(kind, n) == [kind |-> kind, n |-> n]
EmptyForm == [roomName |-> NoRoom, numberOfPeople |-> People("number", 1),
              peopleErrors |-> {}, startDate |-> 0, endDate |-> 0,
              others |-> "empty"]
NoSubmit == [called |-> FALSE, sent |-> FALSE, turn |-> 0]
CrIdle ==
    /\ reservationForm = EmptyForm
    /\ rooms = <<>>
    /\ crSaving = FALSE
    /\ crRequests = <<>>
    /\ crLast = NoSubmit
    /\ crNavs = {}

\* a DetailReservationComponent as its constructor leaves it
DrIdle ==
    /\ editMode = FALSE
    /\ saving = FALSE
    /\ reservation_status = "none"
    /\ reservation_details = "none"
    /\ drFormOk = FALSE
    /\ drSaves = <<>>
    /\ drRefresh = 0
    /\ drServer = "Pending"

CompIdle == RcIdle /\ CrIdle /\ DrIdle

Init == FlowInit /\ EncIdle /\ WebIdle /\ HomeIdle /\ CompIdle

Post(r, op, lines) ==
    reqs' = [reqs EXCEPT ![r] =
                Append(@, Request(op, token, lines, Usable(token, now)))]

\* End that starts the validation again after a rejection
End_again(r, how) ==
    IF how = "NotSent"
    THEN /\ pc' = [pc EXCEPT ![r] = "authed"]
         /\ UNCHANGED outcome
    ELSE /\ pc' = [pc EXCEPT ![r] = "done"]
         /\ outcome' = [outcome EXCEPT ![r] = how]

\* End that catches the exception of requests.post and reports a rejection
End_swallow(r, how) ==
    /\ pc' = [pc EXCEPT ![r] = "done"]
    /\ outcome' = [outcome EXCEPT ![r] =
                       IF how \in {"Timeout", "ConnectionError"}
                       THEN "NotSent" ELSE how]

\* the run ends: the script falls off its end, exits, or dies of an
\* exception nobody catches; how names which
End(r, how) ==
    /\ pc' = [pc EXCEPT ![r] = "done"]
    /\ outcome' = [outcome EXCEPT ![r] = how]

\* authenticate(), up to requests.post
AuthSend(r) ==
    /\ pc[r] = "start"
    /\ pc' = [pc EXCEPT ![r] = "authWait"]
    /\ reqs' = [reqs EXCEPT ![r] =
                   Append(@, Request("GenerateToken", NoText, <<>>, TRUE))]
    /\ UNCHANGED <<token, now, srvExpires, batch, authResp, testResp,
                   testResult, sendResult, outcome>>
    /\ UNCHANGED <<encVars, webVars, homeVars, compVars>>

\* authenticate() from the return of requests.post on, and the check of
\* auth_result['success'] in the caller
AuthDone(r, resp) ==
    /\ authResp' = [authResp EXCEPT ![r] = resp]
    /\ IF resp.kind # "xml"
       THEN /\ End(r, IF resp.kind = "unparsable" THEN "ParseError"
                      ELSE resp.kind)
            /\ UNCHANGED token
       ELSE LET auth_result == parse_token_response(resp.elems)
            IN  /\ token' = IF auth_result.found THEN auth_result.token
                            ELSE token
                /\ IF auth_result.success
                   THEN /\ pc' = [pc EXCEPT ![r] = "authed"]
                        /\ UNCHANGED outcome
                   ELSE End(r, "AuthFailed")
    /\ UNCHANGED <<now, batch, reqs, testResp, testResult, sendResult>>

AuthRecv(r) ==
    /\ pc[r] = "authWait"
    /\ \/ /\ Len(srvExpires) < 9
          /\ now + TokenLifetime <= 9
          /\ srvExpires' = Append(srvExpires, now + TokenLifetime)
          /\ AuthDone(r, AuthGranted(Len(srvExpires) + 1, now,
                                     now + TokenLifetime))
       \/ /\ \E resp \in AuthRefusals : AuthDone(r, resp)
          /\ UNCHANGED srvExpires
    /\ UNCHANGED <<encVars, webVars, homeVars, compVars>>

\* format_schedina for each guest, then test_schedine up to requests.post
TestSend(r) ==
    /\ pc[r] = "authed"
    /\ IF FormatRaises(batch[r])
       THEN /\ End(r, "IndexError")
            /\ UNCHANGED reqs
       ELSE /\ pc' = [pc EXCEPT ![r] = "testWait"]
            /\ Post(r, "Test", FormatBatch(batch[r]))
            /\ UNCHANGED outcome
    /\ UNCHANGED <<token, now, srvExpires, batch, authResp, testResp,
                   testResult, sendResult>>
    /\ UNCHANGED <<encVars, webVars, homeVars, compVars>>

\* test_schedine from the return of requests.post on, and the check of
\* test_result['esito'] in the caller
TestRecv(r) ==
    /\ pc[r] = "testWait"
    /\ \E resp \in OutcomeResponses(Len(batch[r])) :
          /\ testResp' = [testResp EXCEPT ![r] = resp]
          /\ IF resp.kind # "xml"
             THEN /\ End(r, IF resp.kind = "unparsable" THEN "ParseError"
                            ELSE resp.kind)
                  /\ UNCHANGED testResult
             ELSE LET test_result == parse_test_response(resp.elems)
                  IN  IF IsRaised(test_result)
                      THEN /\ End(r, test_result.raised)
                           /\ UNCHANGED testResult
                      ELSE /\ testResult' = [testResult EXCEPT ![r] = test_result]
                           /\ IF test_result.esito
                              THEN /\ pc' = [pc EXCEPT ![r] = "validated"]
                                   /\ UNCHANGED outcome
                              ELSE End(r, "NotSent")
    /\ UNCHANGED <<token, now, srvExpires, batch, reqs, authResp, sendResult>>
    /\ UNCHANGED <<encVars, webVars, homeVars, compVars>>

\* send_schedine up to requests.post
SendSend(r) ==
    /\ pc[r] = "validated"
    /\ pc' = [pc EXCEPT ![r] = "sendWait"]
    /\ Post(r, "Send", FormatBatch(batch[r]))
    /\ UNCHANGED <<token, now, srvExpires, batch, authResp, testResp,
                   testResult, sendResult, outcome>>
    /\ UNCHANGED <<encVars, webVars, homeVars, compVars>>

\* send_schedine from the return of requests.post on
SendRecv(r) ==
    /\ pc[r] = "sendWait"
    /\ \E resp \in OutcomeResponses(Len(batch[r])) :
          IF resp.kind # "xml"
          THEN /\ End(r, IF resp.kind = "unparsable" THEN "ParseError"
                         ELSE resp.kind)
               /\ UNCHANGED sendResult
          ELSE LET send_result == parse_send_response(resp.elems)
               IN  IF IsRaised(send_result)
                   THEN /\ End(r, send_result.raised)
                        /\ UNCHANGED sendResult
                   ELSE /\ sendResult' = [sendResult EXCEPT ![r] = send_result]
                        /\ End(r, "Sent")
    /\ UNCHANGED <<token, now, srvExpires, batch, reqs, authResp, testResp,
                   testResult>>
    /\ UNCHANGED <<encVars, webVars, homeVars, compVars>>

\* time passes
Tick ==
    /\ now < MaxTime
    /\ now' = now + 1
    /\ UNCHANGED <<token, srvExpires, pc, batch, reqs, authResp, testResp,
                   testResult, sendResult, outcome>>
    /\ UNCHANGED <<encVars, webVars, homeVars, compVars>>

Step ==
    \/ \E r \in Runs : AuthSend(r)
    \/ \E r \in Runs : AuthRecv(r)
    \/ \E r \in Runs : TestSend(r)
    \/ \E r \in Runs : TestRecv(r)
    \/ \E r \in Runs : SendSend(r)
    \/ \E r \in Runs : SendRecv(r)

\* the runs alone: the code never reads a clock
Next == Step
Spec == Init /\ [][Next]_vars

\* the runs while time passes
NextClock == Step \/ Tick
InitClock == Init /\ batch = [r \in Runs |-> <<GuestRossi, GuestAnna, GuestRossi>>]
SpecClock == InitClock /\ [][NextClock]_vars

TypeOK ==
    /\ now \in 0..MaxTime
    /\ \A r \in Runs : pc[r] \in {"start", "authWait", "authed", "testWait",
                                  "validated", "sendWait", "done"}

\* ------------------------------------------------------------ the claims
Count(r, op) == Cardinality({i \in 1..Len(reqs[r]) : reqs[r][i].op = op})

\* what a response reports, read off the documented elements
EsitoTexts(resp) ==
    {resp.elems[i].text : i \in {j \in 1..Len(resp.elems) :
                                    resp.elems[j].tag = T_esito}}
CodeTexts(resp) ==
    {resp.elems[i].text : i \in {j \in 1..Len(resp.elems) :
                                    resp.elems[j].tag = T_ErroreCod}}
ReportsSuccess(resp) == resp.kind = "xml" /\ EsitoTexts(resp) = {X_true}
ReportsFailure(resp) == resp.kind = "xml" /\ EsitoTexts(resp) = {X_false}
Received(resp) == resp.kind # "none"

TransportErrors == {"Timeout", "ConnectionError"}

\* C1: a run posts Send only after a Test of its own, with the same lines,
\* that the service answered with esito true; after any other answer to its
\* Test (esito false, an exception of the transport, a body that does not
\* parse) the run has posted no Send, however the runs interleave.
C1_SubmitOnlyAfterValidated ==
    \A r \in Runs :
        /\ \A i \in 1..Len(reqs[r]) :
              reqs[r][i].op = "Send" =>
                 /\ \E j \in 1..(i - 1) :
                       /\ reqs[r][j].op = "Test"
                       /\ reqs[r][j].lines = reqs[r][i].lines
                 /\ ReportsSuccess(testResp[r])
                 /\ testResult[r] # NoResult
                 /\ testResult[r].esito
        /\ (Received(testResp[r]) /\ ~ReportsSuccess(testResp[r]))
              => Count(r, "Send") = 0

\* one run has posted its Send after a validated Test while the other run's
\* Test was answered otherwise and ended without a Send
C1_Witness ==
    \E r, q \in Runs :
        /\ r # q
        /\ Count(r, "Send") = 1 /\ ReportsSuccess(testResp[r])
        /\ Received(testResp[q]) /\ ~ReportsSuccess(testResp[q])
        /\ pc[q] = "done"

\* C2: when two or more runs are inside the authentication call at once,
\* having found no token, only one GenerateToken request has been posted
\* for all of them.
C2_SingleFlight ==
    Cardinality({r \in Runs : pc[r] = "authWait"}) >= 2
        => Count(1, "GenerateToken") + Count(2, "GenerateToken") = 1

\* C3: for a batch with a guest that lacks a required field no request of
\* any kind is posted, and the run ends with a validation error.
C3_NoRequestWhenFieldMissing ==
    \A r \in Runs :
        BatchHasMissing(batch[r]) =>
            /\ reqs[r] = <<>>
            /\ pc[r] = "done" => outcome[r] = "ValidationError"

\* C4: every Test or Send request that carries a token of the service
\* carries one that was usable when the request was posted, that is one
\* with now < expires_at - safety_margin.
C4_NoStaleToken ==
    \A r \in Runs : \A i \in 1..Len(reqs[r]) :
        (reqs[r][i].op \in {"Test", "Send"} /\ reqs[r][i].token # NoText)
            => reqs[r][i].fresh

\* the answers to GenerateToken that mean the authentication failed:
\* credentials rejected, or a response without the expected shape
AuthFailures ==
    {AuthRejected, AuthRejectedNoToken, EmptyBody, Failure("unparsable")}

\* C5: a run whose authentication failed ends there with an
\* authentication error; it does not go on as authenticated.
C5_AuthFailureEndsRun ==
    \A r \in Runs :
        authResp[r] \in AuthFailures =>
            /\ pc[r] = "done"
            /\ outcome[r] \in {"AuthFailed", "ParseError"}

\* C6: an authentication is started only when no usable token is held
\* (none at all, or one that has expired).
C6_AuthOnlyWithoutValidToken ==
    [][\A r \in Runs :
          (pc[r] = "start" /\ pc'[r] = "authWait") => ~Usable(token, now)]_vars

\* C7: when the answer to Test reports esito false with an error code, the
\* result the run holds has esito false and carries that code.
C7_RejectionCarriesCode ==
    \A r \in Runs :
        (ReportsFailure(testResp[r]) /\ CodeTexts(testResp[r]) = {X_E01}) =>
            /\ testResult[r] # NoResult
            /\ ~testResult[r].esito
            /\ "ErroreCod" \in DOMAIN testResult[r]
            /\ testResult[r].ErroreCod = X_E01

\* C8: no request is posted twice by a run: not after a rejection, an
\* authentication failure or a response that does not parse, not after a
\* Send was answered; and a run that ended in an error posted nothing
\* beyond the request that failed.
C8_NothingResent ==
    \A r \in Runs :
        /\ \A op \in {"GenerateToken", "Test", "Send"} : Count(r, op) <= 1
        /\ outcome[r] = "AuthFailed" => Len(reqs[r]) = 1
        /\ outcome[r] = "NotSent" => Len(reqs[r]) = 2
        /\ outcome[r] = "Sent" => Len(reqs[r]) = 3
        /\ pc[r] = "done" => Len(reqs[r]) <= 3

\* one run ended after its Send was answered, the other after a rejection
\* of its Test
C8_Witness ==
    \E r, q \in Runs :
        /\ outcome[r] = "Sent"
        /\ outcome[q] = "NotSent" /\ ReportsFailure(testResp[q])

\* C9: a run whose Test timed out has ended with the transport's exception,
\* not with a rejection and not with a success, and has posted no Send.
C9_TimeoutIsTransportError ==
    \A r \in Runs :
        testResp[r].kind = "Timeout" =>
            /\ pc[r] = "done"
            /\ outcome[r] \in TransportErrors
            /\ testResult[r] = NoResult /\ sendResult[r] = NoResult
            /\ Count(r, "Send") = 0
            /\ Count(r, "Test") = 1

C9_Witness ==
    \E r \in Runs : testResp[r].kind = "Timeout" /\ outcome[r] = "Timeout"

\* C10: an answer with esito false and no error code is classified as
\* ErrUnknownPortalRejection, and no answer with esito false yields a
\* result that counts as a success.
C10_UnknownRejectionClassified ==
    \A r \in Runs :
        ReportsFailure(testResp[r]) =>
            /\ testResult[r] # NoResult
            /\ ~testResult[r].esito
            /\ CodeTexts(testResp[r]) \subseteq {NoText} =>
                  /\ "error" \in DOMAIN testResult[r]
                  /\ testResult[r].error = "ErrUnknownPortalRejection"

\* how a run ends when a response cannot be read in the expected shape
ProtocolErrors == {"ParseError", "ValueError", "TypeError", "ProtocolError"}

\* C11: a response that arrived without the elements expected for its
\* operation ends the call with a protocol error (for GenerateToken an
\* authentication error will do) and leaves no result behind: a Test
\* response without an esito element is not turned into a result.
C11_MalformedIsProtocolError ==
    \A r \in Runs :
        /\ (authResp[r].kind = "xml"
              /\ \A i \in 1..Len(authResp[r].elems) :
                    authResp[r].elems[i].tag # T_token)
              => /\ pc[r] = "done"
                 /\ outcome[r] \in ProtocolErrors \cup {"AuthFailed"}
        /\ (testResp[r].kind = "xml" /\ EsitoTexts(testResp[r]) = {})
              => /\ pc[r] = "done"
                 /\ outcome[r] \in ProtocolErrors
                 /\ testResult[r] = NoResult

\* the state of the batch of run r, by what the run has got so far
BatchState(r) ==
    CASE pc[r] \in {"start", "authWait"} -> "New"
      [] pc[r] = "authed"                -> "TokenAcquired"
      [] pc[r] = "testWait"              -> "Encoded"
      [] pc[r] = "validated"             -> "Validated"
      [] pc[r] = "sendWait"              -> "Submitted"
      [] pc[r] = "done" /\ outcome[r] = "Sent" -> "Acknowledged"
      [] OTHER                           -> "Rejected"

BatchEdges ==
    { <<"New", "Encoded">>, <<"Encoded", "TokenAcquired">>,
      <<"TokenAcquired", "Validated">>, <<"Validated", "Submitted">>,
      <<"Submitted", "Acknowledged">>, <<"Encoded", "Rejected">>,
      <<"TokenAcquired", "Rejected">>, <<"Validated", "Rejected">> }

\* C12: the batch of a run moves only along Encoded, TokenAcquired,
\* Validated, Submitted, Acknowledged, with Rejected entered only from
\* Encoded, TokenAcquired or Validated; once Acknowledged or Rejected the
\* run posts nothing and changes nothing.
C12_BatchStateMachine ==
    [][\A r \in Runs :
          /\ BatchState(r)' # BatchState(r)
                => <<BatchState(r), BatchState(r)'>> \in BatchEdges
          /\ pc[r] = "done"
                => /\ pc'[r] = "done" /\ outcome'[r] = outcome[r]
                   /\ reqs'[r] = reqs[r]]_vars

\* what the code itself guarantees to happen: a run that can take a step of
\* its own takes it; requests.post is called without a timeout, so nothing
\* makes a pending call return
Fairness ==
    \A r \in Runs :
        /\ WF_vars(AuthSend(r))
        /\ WF_vars(TestSend(r))
        /\ WF_vars(SendSend(r))
SpecFair == Init /\ [][Next]_vars /\ Fairness

\* C13: every run comes to an end.
C13_EveryRunEnds == \A r \in Runs : <>(pc[r] = "done")

\* ------------------------------------------- one call of the encoder
\* family names: the one of the usage example, one longer than the field,
\* and two with characters that are markup in XML
LongName == Repeat("x", 52)
Cognomi == {GuestRossi.Cognome, LongName, <<"R","o","s","s","i"," ","&"," ","C">>, <<"R","o","<","s","s","i">>}

\* dates as callers may write them
D_iso      == <<"2","0","2","4","-","0","1","-","1","5">>
D_slashed  == <<"1","5","/","0","1","/","2","0","2","4">>
D_unpadded == <<"2","0","2","4","-","1","-","5">>
D_compact  == <<"2","0","2","4","0","1","1","5">>
D_yslashed == <<"2","0","2","4","/","0","1","/","1","5">>
D_word     == <<"d","o","m","a","n","i">>
D_short    == <<"2","0","2","4","-","0","1">>
DateTexts == {D_iso, D_slashed, D_unpadded, D_compact, D_yslashed, D_word,
              D_short}

\* nights of stay
Giorni == {<<"0","3">>, <<"3">>, <<"1","2","3">>}

EncGuests ==
    { [GuestRossi EXCEPT !["Cognome"] = c, !["DataArrivo"] = d,
                         !["GiorniPermanenza"] = g] :
        c \in Cognomi, d \in DateTexts, g \in Giorni }

\* the clients of the usage example, with passwords as users choose them and
\* with and without a token
Passwords == {<<"p","a","s","s","w","o","r","d">>, <<"p","&","s","s","<","w">>}
Clients ==
    { [username |-> <<"u","s","e","r","n","a","m","e">>, password |-> pw, ws_key |-> <<"w","s","_","k","e","y">>, token |-> t] :
        pw \in Passwords, t \in {NoText, Token(1)} }

\* the parts of an f-string: its literal markup and the values put into it
Markup(m) == [kind |-> "markup", text |-> <<m>>]
Inserted(v) == [kind |-> "text", text |-> v]

\* str(x) as the f-string applies it: None gives the text None
Str(v) == IF v = NoText THEN <<"N","o","n","e">> ELSE v

EnvelopeOpen ==
    << Markup("<soap:Envelope xmlns:soap=... xmlns:all=...>"),
       Markup("<soap:Body>") >>
EnvelopeClose == << Markup("</soap:Body>"), Markup("</soap:Envelope>") >>

\* soap_envelope of authenticate()
AuthEnvelope(c) ==
    EnvelopeOpen \o
    << Markup("<all:GenerateToken>"),
       Markup("<all:Utente>"), Inserted(Str(c.username)), Markup("</all:Utente>"),
       Markup("<all:Password>"), Inserted(Str(c.password)),
       Markup("</all:Password>"),
       Markup("<all:WsKey>"), Inserted(Str(c.ws_key)), Markup("</all:WsKey>"),
       Markup("</all:GenerateToken>") >> \o
    EnvelopeClose

\* schedine_xml of test_schedine()
RECURSIVE SchedineXml(_, _)
SchedineXml(lines, i) ==
    IF i > Len(lines) THEN <<>>
    ELSE << Markup("<all:string>"), Inserted(lines[i]),
            Markup("</all:string>") >> \o SchedineXml(lines, i + 1)

\* soap_envelope of test_schedine()
TestEnvelope(c, lines) ==
    EnvelopeOpen \o
    << Markup("<all:Test>"),
       Markup("<all:Utente>"), Inserted(Str(c.username)), Markup("</all:Utente>"),
       Markup("<all:token>"), Inserted(Str(c.token)), Markup("</all:token>"),
       Markup("<all:ElencoSchedine>") >> \o
    SchedineXml(lines, 1) \o
    << Markup("</all:ElencoSchedine>"), Markup("</all:Test>") >> \o
    EnvelopeClose

InitEncode ==
    /\ FlowInit /\ batch = [r \in Runs |-> <<GuestRossi, GuestAnna, GuestRossi>>]
    /\ WebIdle /\ HomeIdle /\ CompIdle
    /\ guest \in EncGuests
    /\ client \in Clients
    /\ encPc = "input"
    /\ schedina = NoText
    /\ envelope = <<>>

\* client.authenticate() up to the envelope
BuildAuth ==
    /\ encPc = "input"
    /\ envelope' = AuthEnvelope(client)
    /\ encPc' = "authBuilt"
    /\ UNCHANGED <<guest, client, schedina>>
    /\ UNCHANGED <<flowVars, webVars, homeVars, compVars>>

\* client.format_schedina(guest_data)
Encode ==
    /\ encPc \in {"input", "authBuilt"}
    /\ schedina' = format_schedina(guest)
    /\ encPc' = IF IsRaisedStr(format_schedina(guest)) THEN "raised"
                ELSE "formatted"
    /\ UNCHANGED <<guest, client, envelope>>
    /\ UNCHANGED <<flowVars, webVars, homeVars, compVars>>

\* client.test_schedine([schedina]) up to the envelope
BuildTest ==
    /\ encPc = "formatted"
    /\ envelope' = TestEnvelope(client, <<schedina>>)
    /\ encPc' = "testBuilt"
    /\ UNCHANGED <<guest, client, schedina>>
    /\ UNCHANGED <<flowVars, webVars, homeVars, compVars>>

NextEncode == BuildAuth \/ Encode \/ BuildTest
SpecEncode == InitEncode /\ [][NextEncode]_vars

Encoded == encPc \in {"formatted", "testBuilt"}

\* the sum of the widths of the first n fields
RECURSIVE WidthsUpTo(_)
WidthsUpTo(n) == IF n = 0 THEN 0 ELSE FieldTable[n].width + WidthsUpTo(n - 1)
RECORD_LENGTH == WidthsUpTo(Len(FieldTable))

\* C14: every record that encodes successfully has exactly RECORD_LENGTH
\* characters, the sum of the field widths, whatever the lengths of its
\* strings and however its dates are written.
C14_RecordLength == Encoded => Len(schedina) = RECORD_LENGTH

\* the rows of the table "Schedina Structure": position and length
SchedinaStructure == <<
  [from |-> 1, to |-> 2, length |-> 2],
  [from |-> 3, to |-> 12, length |-> 10],
  [from |-> 13, to |-> 14, length |-> 2],
  [from |-> 15, to |-> 64, length |-> 50],
  [from |-> 65, to |-> 94, length |-> 30],
  [from |-> 95, to |-> 95, length |-> 1],
  [from |-> 96, to |-> 105, length |-> 10],
  [from |-> 106, to |-> 114, length |-> 9],
  [from |-> 115, to |-> 116, length |-> 2],
  [from |-> 117, to |-> 125, length |-> 9],
  [from |-> 126, to |-> 134, length |-> 9],
  [from |-> 135, to |-> 136, length |-> 2],
  [from |-> 137, to |-> 156, length |-> 20],
  [from |-> 157, to |-> 166, length |-> 10],
  [from |-> 167, to |-> 206, length |-> 40],
  [from |-> 207, to |-> 215, length |-> 9],
  [from |-> 216, to |-> 217, length |-> 2],
  [from |-> 218, to |-> 226, length |-> 9],
  [from |-> 227, to |-> 276, length |-> 50],
  [from |-> 277, to |-> 291, length |-> 15],
  [from |-> 292, to |-> 341, length |-> 50] >>

\* the length the heading of the table, the docstring of format_schedina and
\* the test guide give
DocumentedLength == 168

RECURSIVE LengthsUpTo(_)
LengthsUpTo(n) ==
    IF n = 0 THEN 0 ELSE SchedinaStructure[n].length + LengthsUpTo(n - 1)

\* C15: the schedina is 168 characters long: the lengths of the documented
\* layout add up to 168, its last field ends at position 168, and
\* format_schedina returns a string of length 168.
C15_Schedina168 ==
    /\ LengthsUpTo(Len(SchedinaStructure)) = DocumentedLength
    /\ SchedinaStructure[Len(SchedinaStructure)].to = DocumentedLength
    /\ Encoded => Len(schedina) = DocumentedLength

\* the fields the table gives the format Numeric
NumericFields == {"TipoAlloggiato", "GiorniPermanenza", "Sesso"}

\* where field i begins in the record
Offset(i) == SchedinaStructure[i].from

\* the characters of the record at the place of field i
FieldAt(rec, i) ==
    IF Len(rec) < SchedinaStructure[i].to THEN NoText
    ELSE SubSeq(rec, Offset(i), SchedinaStructure[i].to)

\* what field i has to hold for value v: text cut to the width and filled
\* with spaces on the right, a number filled with zeros on the left
Justified(v, i) ==
    LET w   == FieldTable[i].width
        cut == SubSeq(v, 1, Min(Len(v), w))
    IN  IF FieldTable[i].key \in NumericFields
        THEN Repeat("0", w - Len(cut)) \o cut
        ELSE cut \o Repeat(" ", w - Len(cut))

\* C16: in an encoded record every field that is not a date holds, at its
\* documented offset and over exactly its width, its value truncated to the
\* width and padded with trailing spaces, or for a numeric field
\* right-justified and padded with zeros; the family name Rossi is found at
\* the offset of the family name followed by spaces up to the width.
C16_FieldsAtOffsets ==
    Encoded =>
        /\ \A i \in 1..Len(FieldTable) :
              FieldTable[i].how # "date" =>
                  FieldAt(schedina, i)
                      = Justified(Get(guest, FieldTable[i].key,
                                      FieldTable[i].dflt), i)
        /\ guest.Cognome = GuestRossi.Cognome
              => FieldAt(schedina, 4)
                     = GuestRossi.Cognome \o Repeat(" ", 45)

\* the text has the form DD/MM/YYYY
IsDDMMYYYY(t) ==
    /\ Len(t) = 10
    /\ \A i \in {1, 2, 4, 5, 7, 8, 9, 10} : IsDigit(t[i])
    /\ t[3] = "/" /\ t[6] = "/"

\* a text with every digit replaced by d
Shape(t) == [i \in 1..Len(t) |-> IF IsDigit(t[i]) THEN "d" ELSE t[i]]

\* the ways of writing a date that a parser of dates accepts
ParseableShapes == {Shape(D_iso), Shape(D_slashed), Shape(D_unpadded),
                    Shape(D_compact), Shape(D_yslashed)}
Parseable(t) == Shape(t) \in ParseableShapes

DateFields == {i \in 1..Len(FieldTable) : FieldTable[i].how = "date"}
DateValue(i) == Get(guest, FieldTable[i].key, FieldTable[i].dflt)

\* C17: once format_schedina has been called, either every date of the guest
\* is parseable, the record is encoded and every date field in it is
\* DD/MM/YYYY, or some date is not parseable and the call has raised and
\* returned no record.
C17_DatesNormalised ==
    encPc \in {"formatted", "testBuilt", "raised"} =>
        IF \A i \in DateFields : Parseable(DateValue(i))
        THEN /\ Encoded
             /\ \A i \in DateFields :
                    IsDDMMYYYY(FormatField(guest, FieldTable[i]))
        ELSE encPc = "raised"

\* character data of XML: no < and no & other than the start of a reference
Entities == {<<"&","a","m","p",";">>, <<"&","l","t",";">>, <<"&","g","t",";">>,
             <<"&","q","u","o","t",";">>, <<"&","a","p","o","s",";">>}
IsCharData(t) ==
    \A i \in 1..Len(t) :
        /\ t[i] # "<"
        /\ t[i] = "&" =>
              \E e \in Entities :
                  /\ i + Len(e) - 1 <= Len(t)
                  /\ SubSeq(t, i, i + Len(e) - 1) = e

\* C18: every envelope built is well-formed: each value put into it is
\* character data, so that it adds, closes or alters no element.
C18_EnvelopeWellFormed ==
    \A i \in 1..Len(envelope) :
        envelope[i].kind = "text" => IsCharData(envelope[i].text)

\* ------------------------------------------------ AuthService (frontend)
MaxClock == 6
MaxExp == 3

\* what localStorage may hold under 'user': nothing, the empty string, text
\* that is no JSON, the JSON null, a JSON object
UserItems == {"none", "empty", "garbage", "null", "object"}

\* what localStorage may hold under 'admin_token': nothing, the empty
\* string, a text without a dot, a text whose second part is no base64 JSON,
\* and tokens whose payload has no exp, exp null or a number of seconds
Jwt(expKind, exp) == [kind |-> "jwt", expKind |-> expKind, exp |-> exp]
TokenItems ==
    {NoItem} \cup
    {[kind |-> k, expKind |-> "undefined", exp |-> 0] :
        k \in {"empty", "nodot", "badpayload"}} \cup
    {Jwt("undefined", 0), Jwt("null", 0)} \cup
    {Jwt("number", e) : e \in 0..MaxExp}

\* !x of JavaScript for the values the service computes
Truthy(v) == v \in {"true", "object"}

\* getUser(): the parsed item, null when there is none or it does not parse
getUser(storage, userItem) ==
    IF ~storage THEN "null"
    ELSE IF userItem \in {"none", "empty"} THEN "null"
    ELSE IF userItem = "garbage" THEN "null"
    ELSE userItem

\* Math.floor(Date.now() / 1000)
Seconds(clk) == clk \div 2

\* isTokenValid that still accepts the token in the second it expires
isTokenValid_inclusive(item, clk) ==
    IF item.kind \in {"none", "empty"} THEN "false"
    ELSE IF item.kind # "jwt" THEN "false"
    ELSE IF item.expKind # "number" THEN item.expKind
    ELSE IF item.exp = 0 THEN "0"
    ELSE IF item.exp >= Seconds(clk) THEN "true" ELSE "false"

\* isTokenValid(): exp && exp > now, false when there is no token or its
\* payload cannot be decoded
isTokenValid(item, clk) ==
    IF item.kind \in {"none", "empty"} THEN "false"
    ELSE IF item.kind # "jwt" THEN "false"
    ELSE IF item.expKind # "number" THEN item.expKind
    ELSE IF item.exp = 0 THEN "0"
    ELSE IF item.exp > Seconds(clk) THEN "true" ELSE "false"

\* logout that removes 'user' and leaves the token
logout_keepToken(store) == Store("none", store.admin_token)

\* logout(): both items removed
logout(store) == Store("none", NoItem)

\* isLoggedIn that logs out without sending the browser to the login page
isLoggedIn_noredirect(storage, store, clk) ==
    IF ~storage
    THEN [ret |-> "false", after |-> store, loggedOut |-> FALSE,
          navigated |-> "none"]
    ELSE IF \/ ~Truthy(getUser(storage, store.user))
            \/ ~Truthy(isTokenValid(store.admin_token, clk))
         THEN [ret |-> "false", after |-> logout(store), loggedOut |-> TRUE,
               navigated |-> "none"]
         ELSE [ret |-> "true", after |-> store, loggedOut |-> FALSE,
               navigated |-> "none"]

\* isLoggedIn(): what it returns, what it leaves in localStorage, whether it
\* called logout() and where it navigated
isLoggedIn(storage, store, clk) ==
    IF ~storage
    THEN [ret |-> "false", after |-> store, loggedOut |-> FALSE,
          navigated |-> "none"]
    ELSE IF \/ ~Truthy(getUser(storage, store.user))
            \/ ~Truthy(isTokenValid(store.admin_token, clk))
         THEN [ret |-> "false", after |-> logout(store), loggedOut |-> TRUE,
               navigated |-> "/admin/login"]
         ELSE [ret |-> "true", after |-> store, loggedOut |-> FALSE,
               navigated |-> "none"]

Call(op, ret, after, loggedOut, navigated) ==
    [op |-> op, ret |-> ret, at |-> clock,
     before |-> Store(lsUser, lsToken), after |-> after,
     loggedOut |-> loggedOut, navigated |-> navigated]

\* ------------------------------------- the router's guard, AdminHomeComponent
\* the children of the route 'admin' and whether canActivate guards them
AdminRoutes ==
    <<[path |-> "/admin/login", guarded |-> FALSE],
      [path |-> "/admin/dashboard", guarded |-> TRUE],
      [path |-> "/admin/rooms", guarded |-> TRUE],
      [path |-> "/admin/reservation-details", guarded |-> TRUE],
      [path |-> "/admin/create-reservation", guarded |-> TRUE],
      [path |-> "/admin/admin-info", guarded |-> TRUE]>>
Paths == {AdminRoutes[i].path : i \in 1..Len(AdminRoutes)}
Guarded(path) ==
    \E i \in 1..Len(AdminRoutes) :
        AdminRoutes[i].path = path /\ AdminRoutes[i].guarded

\* canActivate that decides on the isLoggedIn() it logged
canActivate_logged(storage, store, clk1, clk2) ==
    LET logged == isLoggedIn(storage, store, clk1)
        asked == isLoggedIn(storage, logged.after, clk2)
    IN  [allowed |-> logged.ret = "true", after |-> asked.after,
         navigated |-> IF logged.ret = "true" THEN "none" ELSE "/admin/login"]

\* AuthGuard.canActivate(): isLoggedIn() is called for the console.log at
\* clk1 and again for the decision at clk2
canActivate(storage, store, clk1, clk2) ==
    LET logged == isLoggedIn(storage, store, clk1)
        asked == isLoggedIn(storage, logged.after, clk2)
    IN  [allowed |-> asked.ret = "true", after |-> asked.after,
         navigated |-> IF asked.ret = "true" THEN "none" ELSE "/admin/login"]

\* the router activating a path: through the guard where the route has one
Activate(path, storage, store, clk1, clk2) ==
    IF Guarded(path) THEN canActivate(storage, store, clk1, clk2)
    ELSE [allowed |-> TRUE, after |-> store, navigated |-> "none"]

Nav(path, store, g, at) ==
    [target |-> path, guarded |-> Guarded(path), allowed |-> g.allowed,
     at |-> at, before |-> store,
     route |-> IF g.allowed THEN path ELSE g.navigated]

\* +text of JavaScript for the texts localStorage holds here: 0 for the
\* empty text, the number for digits, NaN for anything else
NaN == 0 - 2
ToNumber(text) ==
    IF text = <<>> THEN 0
    ELSE IF \A i \in 1..Len(text) : IsDigit(text[i]) THEN IntOf(text)
    ELSE NaN

\* String(id) for the one-digit ids of the model
StringOf(id) == <<DigitChar(id)>>

\* the user$ subscriber of AdminHomeComponent.ngOnInit: what it leaves in
\* selectedStructureId and in localStorage 'selected_structure_id' (a
\* missing item and an empty one are both falsy), and where it navigates
userSubscription(user, selected, saved) ==
    IF ~user.isUser
    THEN [selected |-> selected, saved |-> saved, navigated |-> "/admin/login"]
    ELSE IF /\ saved # <<>>
            /\ \E i \in 1..Len(user.structures) :
                   user.structures[i] = ToNumber(saved)
         THEN [selected |-> ToNumber(saved), saved |-> saved,
               navigated |-> "none"]
         ELSE IF Len(user.structures) > 0
              THEN [selected |-> user.structures[1],
                    saved |-> StringOf(user.structures[1]),
                    navigated |-> "none"]
              ELSE [selected |-> selected, saved |-> saved,
                    navigated |-> "none"]

\* the users the backend answers a login with, by the ids of their
\* structures, and what an earlier visit may have left as saved id
Users == {User(<<>>), User(<<1, 2>>), User(<<2>>), User(<<3, 1>>)}
UserOne == User(<<1, 2>>)
SavedTexts == {<<>>, <<"1">>, <<"2">>, <<"0", "2">>, <<"7">>, <<"x">>}

\* a tab opened at any time after earlier visits: localStorage holds what
\* they left; without window.localStorage there is nothing to hold
InitAuth ==
    /\ FlowInit /\ batch = [r \in Runs |-> <<GuestRossi, GuestAnna, GuestRossi>>]
    /\ EncIdle /\ CompIdle
    /\ hasStorage \in BOOLEAN
    /\ lsUser \in IF hasStorage THEN UserItems ELSE {"none"}
    /\ lsToken \in IF hasStorage THEN TokenItems ELSE {NoItem}
    /\ clock = 0
    /\ route = "/"
    /\ lastCall = NoCall
    /\ sessions = {}
    /\ userSubject = IF lsUser = "object" THEN UserOne ELSE NoUser
    /\ subscribed = FALSE
    /\ selectedStructureId = NoId
    /\ lsSelected = <<>>
    /\ lastNav = NoNav

\* LoginComponent.onLogin, next: setUser(res.user), which user$ emits to the
\* subscriber of AdminHomeComponent; the token stored; the first structure
\* saved as selected; and the dashboard asked of the router
OnLogin(exp, user) ==
    LET h == IF subscribed
             THEN userSubscription(user, selectedStructureId, lsSelected)
             ELSE [selected |-> selectedStructureId, saved |-> lsSelected,
                   navigated |-> "none"]
        stored == Store("object", Jwt("number", exp))
        g == Activate("/admin/dashboard", hasStorage, stored, clock, clock)
    IN  /\ hasStorage
        /\ userSubject' = user
        /\ selectedStructureId' = h.selected
        /\ lsSelected' = IF Len(user.structures) > 0
                         THEN StringOf(user.structures[1]) ELSE h.saved
        /\ lsUser' = g.after.user
        /\ lsToken' = g.after.admin_token
        /\ route' = IF g.allowed THEN "/admin/dashboard" ELSE g.navigated
        /\ lastNav' = Nav("/admin/dashboard", stored, g, clock)
        /\ lastCall' = Call("setUser", "none", Store("object", lsToken), FALSE,
                            "/admin/dashboard")
        /\ sessions' = IF g.allowed THEN {exp} ELSE {}
        /\ UNCHANGED <<hasStorage, clock, subscribed>>
        /\ UNCHANGED <<flowVars, encVars, compVars>>

\* a call of isLoggedIn()
CallIsLoggedIn ==
    LET r == isLoggedIn(hasStorage, Store(lsUser, lsToken), clock)
    IN  /\ lsUser' = r.after.user
        /\ lsToken' = r.after.admin_token
        /\ route' = IF r.navigated = "none" THEN route ELSE r.navigated
        /\ lastCall' = Call("isLoggedIn", r.ret, r.after, r.loggedOut,
                            r.navigated)
        /\ sessions' = IF r.ret = "true" THEN {lsToken.exp} ELSE sessions
        /\ UNCHANGED <<hasStorage, clock>>
        /\ UNCHANGED <<flowVars, encVars, homeVars, compVars>>

\* a call of isTokenValid()
CallIsTokenValid ==
    /\ hasStorage
    /\ lastCall' = Call("isTokenValid", isTokenValid(lsToken, clock),
                        Store(lsUser, lsToken), FALSE, "none")
    /\ UNCHANGED <<hasStorage, lsUser, lsToken, clock, route, sessions>>
    /\ UNCHANGED <<flowVars, encVars, homeVars, compVars>>

\* a call of logout()
CallLogout ==
    /\ hasStorage
    /\ lsUser' = logout(Store(lsUser, lsToken)).user
    /\ lsToken' = logout(Store(lsUser, lsToken)).admin_token
    /\ lastCall' = Call("logout", "none", logout(Store(lsUser, lsToken)),
                        TRUE, "none")
    /\ UNCHANGED <<hasStorage, clock, route, sessions>>
    /\ UNCHANGED <<flowVars, encVars, homeVars, compVars>>

\* half a second passes
TickWeb ==
    /\ clock < MaxClock
    /\ clock' = clock + 1
    /\ UNCHANGED <<hasStorage, lsUser, lsToken, route, lastCall, sessions>>
    /\ UNCHANGED <<flowVars, encVars, homeVars, compVars>>

NextAuth ==
    \/ \E exp \in 0..MaxExp : OnLogin(exp, UserOne)
    \/ CallIsLoggedIn
    \/ CallIsTokenValid
    \/ CallLogout
    \/ TickWeb
SpecAuth == InitAuth /\ [][NextAuth]_vars

\* C19: a call of isLoggedIn() returns true exactly when localStorage held a
\* user object and a token isTokenValid() accepts; when it returns false
\* with browser storage at hand it has called logout(), which left neither
\* 'user' nor 'admin_token' in localStorage, and has navigated to
\* /admin/login; when it returns true it has done neither.
C19_IsLoggedIn ==
    lastCall.op = "isLoggedIn" =>
        /\ lastCall.ret \in {"true", "false"}
        /\ lastCall.ret = "true"
              <=> /\ hasStorage
                  /\ lastCall.before.user = "object"
                  /\ isTokenValid(lastCall.before.admin_token, lastCall.at)
                         = "true"
        /\ (lastCall.ret = "false" /\ hasStorage)
              => /\ lastCall.loggedOut
                 /\ lastCall.after = Store("none", NoItem)
                 /\ lastCall.navigated = "/admin/login"
        /\ lastCall.ret = "true"
              => /\ ~lastCall.loggedOut
                 /\ lastCall.after = lastCall.before
                 /\ lastCall.navigated = "none"

\* isLoggedIn() has answered false, logged out and redirected a tab that
\* held a user and a token
C19_Witness ==
    /\ lastCall.op = "isLoggedIn" /\ lastCall.ret = "false"
    /\ lastCall.before.user = "object"
    /\ lastCall.before.admin_token.kind = "jwt"
    /\ lastCall.navigated = "/admin/login"

\* C20: isTokenValid() returns true only for a stored token whose payload
\* has a number as exp with exp > now in whole seconds; and once
\* isLoggedIn() has returned true for a token, every call of isLoggedIn() at
\* a time >= that token's exp returns false, having called logout() and
\* navigated to /admin/login.
C20_Expiry ==
    /\ (lastCall.op = "isTokenValid" /\ lastCall.ret = "true")
          => /\ lastCall.before.admin_token.kind = "jwt"
             /\ lastCall.before.admin_token.expKind = "number"
             /\ lastCall.before.admin_token.exp * 2 > lastCall.at
    /\ (lastCall.op = "isLoggedIn"
          /\ \E e \in sessions : lastCall.at >= 2 * e)
          => /\ lastCall.ret = "false"
             /\ lastCall.loggedOut
             /\ lastCall.navigated = "/admin/login"

\* a session found valid earlier is found expired by a later isLoggedIn()
C20_Witness ==
    /\ lastCall.op = "isLoggedIn" /\ lastCall.ret = "false"
    /\ \E e \in sessions : lastCall.at >= 2 * e
    /\ lastCall.before.admin_token.kind = "jwt"

\* C23: a call of isTokenValid() on a stored token that is malformed (fewer
\* than two dot-separated parts, or a second part that is no base64 JSON)
\* throws instead of returning a value.
C23_MalformedThrows ==
    (/\ lastCall.op = "isTokenValid"
     /\ lastCall.before.admin_token.kind \in {"nodot", "badpayload"})
        => lastCall.ret = "throws"

\* C25: a call of logout() removes 'user' and 'admin_token' from
\* localStorage and nothing else, and emits nothing on user$: subscribers
\* keep the user emitted last while getUser() returns null.
C25_LogoutFrame ==
    [][(lastCall' # lastCall /\ lastCall'.op = "logout")
          => /\ lsUser' = "none"
             /\ lsToken' = NoItem
             /\ lsSelected' = lsSelected
             /\ userSubject' = userSubject
             /\ getUser(hasStorage', lsUser') = "null"]_vars

\* logout() has been called in a tab that was logged in: user$ still holds
\* the user, the saved structure is still there, getUser() returns null
C25_Witness ==
    /\ lastCall.op = "logout"
    /\ lastCall.before.user = "object"
    /\ lastCall.before.admin_token.kind = "jwt"
    /\ userSubject.isUser
    /\ lsSelected # <<>>
    /\ lsUser = "none" /\ lsToken = NoItem
    /\ getUser(hasStorage, lsUser) = "null"

\* ------------------------------------- the admin pages of one browser tab
\* a tab opened on the admin pages after earlier visits: what they left in
\* localStorage, user$ holding the stored user, no component created yet
InitHome ==
    /\ FlowInit /\ batch = [r \in Runs |-> <<GuestRossi, GuestAnna, GuestRossi>>]
    /\ EncIdle /\ CompIdle
    /\ hasStorage = TRUE
    /\ lsUser \in {"none", "object"}
    /\ lsToken \in {NoItem, Jwt("number", MaxExp)}
    /\ clock = 0
    /\ route = "/"
    /\ lastCall = NoCall
    /\ sessions = {}
    /\ userSubject \in IF lsUser = "object" THEN Users ELSE {NoUser}
    /\ subscribed = FALSE
    /\ selectedStructureId = NoId
    /\ lsSelected \in SavedTexts
    /\ lastNav = NoNav

\* AdminHomeComponent.ngOnInit: the subscription, to which user$ emits its
\* current value at once
NgOnInit ==
    LET h == userSubscription(userSubject, selectedStructureId, lsSelected)
        store == Store(lsUser, lsToken)
    IN  /\ ~subscribed
        /\ subscribed' = TRUE
        /\ selectedStructureId' = h.selected
        /\ lsSelected' = h.saved
        /\ route' = IF h.navigated = "none" THEN route ELSE h.navigated
        /\ lastNav' = IF h.navigated = "none" THEN lastNav
                      ELSE Nav(h.navigated, store,
                               Activate(h.navigated, hasStorage, store,
                                        clock, clock), clock)
        /\ UNCHANGED <<hasStorage, lsUser, lsToken, clock, lastCall, sessions,
                       userSubject>>
        /\ UNCHANGED <<flowVars, encVars, compVars>>

\* AdminHomeComponent.onStructureChange: the id chosen and saved, and the
\* page reloaded: the service and the component are created anew and the
\* router activates the same path again
OnStructureChange(id) ==
    LET store == Store(lsUser, lsToken)
        g == IF route \in Paths
             THEN Activate(route, hasStorage, store, clock, clock)
             ELSE [allowed |-> TRUE, after |-> store, navigated |-> "none"]
    IN  /\ subscribed
        /\ userSubject.isUser
        /\ \E i \in 1..Len(userSubject.structures) :
               userSubject.structures[i] = id
        /\ lsSelected' = StringOf(id)
        /\ selectedStructureId' = NoId
        /\ subscribed' = FALSE
        /\ lsUser' = g.after.user
        /\ lsToken' = g.after.admin_token
        /\ userSubject' = IF getUser(hasStorage, lsUser) = "object"
                          THEN userSubject ELSE NoUser
        /\ route' = IF g.allowed THEN route ELSE g.navigated
        /\ lastNav' = IF route \in Paths THEN Nav(route, store, g, clock)
                      ELSE lastNav
        /\ sessions' = IF route \in Paths /\ Guarded(route) /\ g.allowed
                       THEN {lsToken.exp} ELSE sessions
        /\ UNCHANGED <<hasStorage, clock, lastCall>>
        /\ UNCHANGED <<flowVars, encVars, compVars>>

\* AdminHomeComponent.logout: logout() of the service, then the login page
HomeLogout ==
    LET left == logout(Store(lsUser, lsToken))
    IN  /\ subscribed
        /\ lsUser' = left.user
        /\ lsToken' = left.admin_token
        /\ route' = "/admin/login"
        /\ lastCall' = Call("logout", "none", left, TRUE, "none")
        /\ lastNav' = Nav("/admin/login", left,
                          Activate("/admin/login", hasStorage, left,
                                   clock, clock), clock)
        /\ UNCHANGED <<hasStorage, clock, sessions, userSubject, subscribed,
                       selectedStructureId, lsSelected>>
        /\ UNCHANGED <<flowVars, encVars, compVars>>

\* the router asked for a path, by a link or by the address bar; between
\* the two isLoggedIn() of the guard the clock may move on
Navigate(path, tick) ==
    LET store == Store(lsUser, lsToken)
        g == Activate(path, hasStorage, store, clock, clock + tick)
    IN  /\ clock + tick <= MaxClock
        /\ Guarded(path) \/ tick = 0
        /\ lsUser' = g.after.user
        /\ lsToken' = g.after.admin_token
        /\ clock' = clock + tick
        /\ route' = IF g.allowed THEN path ELSE g.navigated
        /\ lastNav' = Nav(path, store, g, clock + tick)
        /\ sessions' = IF Guarded(path) /\ g.allowed THEN {lsToken.exp}
                       ELSE sessions
        /\ UNCHANGED <<hasStorage, lastCall, userSubject, subscribed,
                       selectedStructureId, lsSelected>>
        /\ UNCHANGED <<flowVars, encVars, compVars>>

NextHome ==
    \/ NgOnInit
    \/ \E user \in Users : OnLogin(MaxExp, user)
    \/ \E id \in 1..3 : OnStructureChange(id)
    \/ HomeLogout
SpecHome == InitHome /\ [][NextHome]_vars

\* a tab opened on the admin pages with whatever earlier visits left as
\* 'user' and 'admin_token'
InitGuard ==
    /\ FlowInit /\ batch = [r \in Runs |-> <<GuestRossi, GuestAnna, GuestRossi>>]
    /\ EncIdle /\ CompIdle
    /\ hasStorage = TRUE
    /\ lsUser \in {"none", "object"}
    /\ lsToken \in TokenItems
    /\ clock = 0
    /\ route = "/"
    /\ lastCall = NoCall
    /\ sessions = {}
    /\ userSubject = IF lsUser = "object" THEN UserOne ELSE NoUser
    /\ subscribed = FALSE
    /\ selectedStructureId = NoId
    /\ lsSelected = <<>>
    /\ lastNav = NoNav

NextGuard ==
    \/ \E path \in Paths, tick \in 0..1 : Navigate(path, tick)
    \/ TickWeb
SpecGuard == InitGuard /\ [][NextGuard]_vars

\* C24: once AdminHomeComponent has subscribed and user$ has emitted a user
\* with a non-empty structures list, selectedStructureId is the id of one
\* of that user's structures and localStorage 'selected_structure_id' holds
\* the same id.
C24_SelectedStructure ==
    (subscribed /\ userSubject.isUser /\ Len(userSubject.structures) > 0)
        => /\ \E i \in 1..Len(userSubject.structures) :
                  userSubject.structures[i] = selectedStructureId
           /\ lsSelected # <<>>
           /\ ToNumber(lsSelected) = selectedStructureId

\* C27: a guarded admin route is activated only if isLoggedIn() returned
\* true at activation time; when it returned false the guard denies and the
\* router is sent to /admin/login; the login route is never guarded.
C27_GuardedRoutes ==
    /\ ~Guarded("/admin/login")
    /\ \A path \in Paths \ {"/admin/login"} : Guarded(path)
    /\ lastNav.target # "none" =>
          LET asked == isLoggedIn(hasStorage, lastNav.before, lastNav.at)
          IN  /\ (lastNav.guarded /\ lastNav.allowed)
                    => asked.ret = "true" /\ lastNav.route = lastNav.target
              /\ (lastNav.guarded /\ ~lastNav.allowed)
                    => asked.ret = "false" /\ lastNav.route = "/admin/login"
              /\ lastNav.target = "/admin/login"
                    => lastNav.allowed /\ lastNav.route = "/admin/login"
    /\ Guarded(route) => /\ lastNav.route = route
                         /\ lastNav.guarded /\ lastNav.allowed

\* the guard has denied the dashboard to a tab whose token had expired and
\* the router is at the login page
C27_Witness ==
    /\ lastNav.target = "/admin/dashboard"
    /\ lastNav.guarded /\ ~lastNav.allowed
    /\ lastNav.before.user = "object"
    /\ lastNav.before.admin_token.kind = "jwt"
    /\ route = "/admin/login"

\* ---------------------------------------------- RemoteCheckinComponent
MaxLoads == 2
MaxGuests == 2

\* what getReservationById answers with: registered_clients_count a number
\* or missing; number_of_people missing, a text that is no number, or the
\* number the create form let through (Validators.min(1))
Reservations ==
    {[kind |-> "loaded", count |-> c, people |-> q] :
        c \in {Missing} \cup {Present(n) : n \in 0..MaxGuests},
        q \in {Missing, NotNumeric} \cup {Present(n) : n \in 1..MaxGuests}}
Failed == [kind |-> "failed", count |-> Missing, people |-> Missing]

\* registered_clients_count || 0
OrZero(c) == IF c.kind = "number" THEN c.n ELSE 0
\* Number(rawMaxPeople) || 1
NumberOrOne(q) == IF q.kind = "number" /\ q.n # 0 THEN q.n ELSE 1

\* checkRegistrationCapacity: the canRegister it leaves
checkRegistrationCapacity(reservation) ==
    ~(OrZero(reservation.count) >= NumberOrOne(reservation.people))

\* status of a FormGroup; invalid is status === 'INVALID'
Status(form) ==
    IF form.disabled THEN "DISABLED"
    ELSE IF form.ok THEN "VALID" ELSE "INVALID"
invalid(form) == Status(form) = "INVALID"

\* uploadReservationData without its check of canRegister
uploadReservationData_unchecked(can, images, fields) ==
    ~(invalid(images) \/ invalid(fields))

\* uploadReservationData: whether it gets to uploadImages
uploadReservationData(can, images, fields) ==
    IF ~can THEN FALSE
    ELSE IF invalid(images) \/ invalid(fields) THEN FALSE
    ELSE TRUE

\* the component after ngOnInit: the first getReservationById sent
InitCheckin ==
    /\ FlowInit /\ batch = [r \in Runs |-> <<GuestRossi, GuestAnna, GuestRossi>>]
    /\ EncIdle /\ WebIdle /\ HomeIdle /\ CrIdle /\ DrIdle
    /\ rcPending = 1
    /\ rcLast = NoResponse
    /\ canRegister = TRUE
    /\ clientForm = Form(FALSE, FALSE)
    /\ uploadForm = Form(FALSE, FALSE)
    /\ lastUpload = NoUpload

\* route.params emits again: loadReservationDetails sends another request
LoadReservationDetails ==
    /\ rcPending < MaxLoads
    /\ rcPending' = rcPending + 1
    /\ UNCHANGED <<rcLast, canRegister, clientForm, uploadForm, lastUpload>>
    /\ UNCHANGED <<flowVars, encVars, webVars, homeVars, crVars, drVars>>

\* next of getReservationById: checkRegistrationCapacity, and the forms
\* disabled or enabled with it
Loaded(reservation) ==
    LET can == checkRegistrationCapacity(reservation)
    IN  /\ rcPending > 0
        /\ rcPending' = rcPending - 1
        /\ rcLast' = reservation
        /\ canRegister' = can
        /\ clientForm' = Form(clientForm.ok, ~can)
        /\ uploadForm' = Form(uploadForm.ok, ~can)
        /\ UNCHANGED lastUpload
        /\ UNCHANGED <<flowVars, encVars, webVars, homeVars, crVars, drVars>>

\* error of getReservationById
LoadFailed ==
    /\ rcPending > 0
    /\ rcPending' = rcPending - 1
    /\ rcLast' = Failed
    /\ canRegister' = FALSE
    /\ clientForm' = Form(clientForm.ok, TRUE)
    /\ uploadForm' = Form(uploadForm.ok, TRUE)
    /\ UNCHANGED lastUpload
    /\ UNCHANGED <<flowVars, encVars, webVars, homeVars, crVars, drVars>>

\* the guest types into the client form, which takes input while enabled
FillClientForm(ok) ==
    /\ ~clientForm.disabled
    /\ clientForm' = Form(ok, FALSE)
    /\ UNCHANGED <<rcPending, rcLast, canRegister, uploadForm, lastUpload>>
    /\ UNCHANGED <<flowVars, encVars, webVars, homeVars, crVars, drVars>>

\* handleFormData: the FormGroup of the child replaces uploadForm
HandleFormData(ok) ==
    /\ uploadForm' = Form(ok, FALSE)
    /\ UNCHANGED <<rcPending, rcLast, canRegister, clientForm, lastUpload>>
    /\ UNCHANGED <<flowVars, encVars, webVars, homeVars, crVars, drVars>>

\* a call of uploadReservationData
UploadReservationData ==
    /\ lastUpload' =
          [called |-> TRUE,
           sent |-> uploadReservationData(canRegister, uploadForm,
                                          clientForm),
           canRegister |-> canRegister,
           client |-> Status(clientForm), upload |-> Status(uploadForm),
           turn |-> 1 - lastUpload.turn]
    /\ UNCHANGED <<rcPending, rcLast, canRegister, clientForm, uploadForm>>
    /\ UNCHANGED <<flowVars, encVars, webVars, homeVars, crVars, drVars>>

NextCheckin ==
    \/ LoadReservationDetails
    \/ \E reservation \in Reservations : Loaded(reservation)
    \/ LoadFailed
    \/ \E ok \in BOOLEAN : FillClientForm(ok)
    \/ \E ok \in BOOLEAN : HandleFormData(ok)
    \/ UploadReservationData
SpecCheckin == InitCheckin /\ [][NextCheckin]_vars

\* number_of_people as the claim reads it: 1 when missing or not numeric
PeopleOf(q) == IF q.kind = "number" THEN q.n ELSE 1

C28_NoUploadBeforeLoad ==
    [][(lastUpload' # lastUpload /\ lastUpload'.sent)
          => /\ rcPending = 0
             /\ rcLast.kind = "loaded"
             /\ OrZero(rcLast.count) < PeopleOf(rcLast.people)]_vars

\* ------------------------------------------- CreateReservationComponent
MaxPeople == 2
MaxCapacity == 1
MaxDay == 2
MaxCreates == 1

\* what the control roomName may hold: '' or null, a room of the select
\* with its capacity, a room name typed as text
RoomObject(named, capacity) ==
    [kind |-> "object", named |-> named, capacity |-> capacity]
RoomText == [kind |-> "text", named |-> FALSE, capacity |-> Missing]
RoomValues ==
    {NoRoom, RoomText} \cup
    {RoomObject(TRUE, c) :
        c \in {Missing} \cup {Present(n) : n \in 0..MaxCapacity}}
\* what getRooms answers with: the room the typed name is the name of
RoomList == <<RoomObject(TRUE, Present(1))>>

\* what the control numberOfPeople may hold: null, a number, a text that is
\* no number
PeopleValues ==
    {People("null", 0), People("text", 0)} \cup
    {People("number", n) : n \in 0..MaxPeople}

\* Validators.required and Validators.min(1) of numberOfPeople
PeopleValidators(people) ==
    IF people.kind = "null" THEN {"required"}
    ELSE IF people.kind = "number" /\ people.n < 1 THEN {"min"}
    ELSE {}

\* Number(capacity) || 0
NumberOrZero(c) == IF c.kind = "number" THEN c.n ELSE 0

\* roomCapacity of validateNumberOfPeople
roomCapacity(room, roomList) ==
    IF room.kind = "object" /\ room.capacity.kind # "missing"
    THEN NumberOrZero(room.capacity)
    ELSE IF room.kind = "text" /\ Len(roomList) > 0
         THEN NumberOrZero(roomList[1].capacity)
         ELSE 0

\* validateNumberOfPeople that lets one guest more than the capacity pass
validateNumberOfPeople_oneMore(room, people, errors, roomList) ==
    IF room.kind = "empty" \/ people.kind = "null" THEN errors
    ELSE IF people.kind = "text" THEN {"invalidNumber"}
    ELSE IF roomCapacity(room, roomList) > 0
         THEN IF people.n > roomCapacity(room, roomList) + 1
              THEN {"exceedsCapacity"}
              ELSE errors \ {"exceedsCapacity"}
         ELSE errors

\* validateNumberOfPeople: the errors it leaves on numberOfPeople
\* (exceedsCapacity stands for the pair exceedsCapacity, maxCapacity)
validateNumberOfPeople(room, people, errors, roomList) ==
    IF room.kind = "empty" \/ people.kind = "null" THEN errors
    ELSE IF people.kind = "text" THEN {"invalidNumber"}
    ELSE IF roomCapacity(room, roomList) > 0
         THEN IF people.n > roomCapacity(room, roomList)
              THEN {"exceedsCapacity"}
              ELSE errors \ {"exceedsCapacity"}
         ELSE errors

\* dateRangeValidator that accepts every pair of dates
dateRangeValidator_off(startDate, endDate) == FALSE

\* dateRangeValidator: dateRangeInvalid, for days 1..MaxDay and 0 for ''
dateRangeValidator(startDate, endDate) ==
    startDate # 0 /\ endDate # 0 /\ startDate > endDate

\* reservationForm.valid
valid(form) ==
    /\ form.others = "ok"
    /\ form.startDate # 0
    /\ form.endDate # 0
    /\ form.roomName.kind # "empty"
    /\ form.peopleErrors = {}
    /\ ~dateRangeValidator(form.startDate, form.endDate)

\* onSubmit: whether it gets to createReservation
onSubmit(form) ==
    IF valid(form)
    THEN form.roomName.kind = "object" /\ form.roomName.named
    ELSE FALSE

\* the create page open in a tab that is logged in, after ngOnInit
InitCreate ==
    /\ FlowInit /\ batch = [r \in Runs |-> <<GuestRossi, GuestAnna, GuestRossi>>]
    /\ EncIdle /\ RcIdle /\ CrIdle /\ DrIdle
    /\ hasStorage = TRUE
    /\ lsUser = "object"
    /\ lsToken = Jwt("number", MaxExp)
    /\ clock = 0
    /\ route = "/admin/create-reservation"
    /\ lastCall = NoCall
    /\ sessions = {MaxExp}
    /\ userSubject = UserOne
    /\ subscribed = TRUE
    /\ selectedStructureId = 1
    /\ lsSelected = StringOf(1)
    /\ lastNav = NoNav

\* next of getRooms
RoomsLoaded ==
    /\ rooms = <<>>
    /\ rooms' = RoomList
    /\ UNCHANGED <<reservationForm, crSaving, crRequests, crLast, crNavs>>
    /\ UNCHANGED <<flowVars, encVars, webVars, homeVars, rcVars, drVars>>

\* the room chosen: roomName.valueChanges runs validateNumberOfPeople
SetRoom(room) ==
    /\ crNavs = {}
    /\ reservationForm' =
          [reservationForm EXCEPT
              !.roomName = room,
              !.peopleErrors =
                  validateNumberOfPeople(room, reservationForm.numberOfPeople,
                                         reservationForm.peopleErrors, rooms)]
    /\ UNCHANGED <<rooms, crSaving, crRequests, crLast, crNavs>>
    /\ UNCHANGED <<flowVars, encVars, webVars, homeVars, rcVars, drVars>>

\* the number entered: the validators of the control run, then
\* numberOfPeople.valueChanges runs validateNumberOfPeople
SetPeople(people) ==
    /\ crNavs = {}
    /\ reservationForm' =
          [reservationForm EXCEPT
              !.numberOfPeople = people,
              !.peopleErrors =
                  validateNumberOfPeople(reservationForm.roomName, people,
                                         PeopleValidators(people), rooms)]
    /\ UNCHANGED <<rooms, crSaving, crRequests, crLast, crNavs>>
    /\ UNCHANGED <<flowVars, encVars, webVars, homeVars, rcVars, drVars>>

\* the dates picked
SetDates(startDate, endDate) ==
    /\ crNavs = {}
    /\ reservationForm' = [reservationForm EXCEPT !.startDate = startDate,
                                                  !.endDate = endDate]
    /\ UNCHANGED <<rooms, crSaving, crRequests, crLast, crNavs>>
    /\ UNCHANGED <<flowVars, encVars, webVars, homeVars, rcVars, drVars>>

\* reservationNumber, nameReference, email and telephone typed: one of
\* them empty, the email no address, or all four fine
SetOthers(others) ==
    /\ crNavs = {}
    /\ reservationForm' = [reservationForm EXCEPT !.others = others]
    /\ UNCHANGED <<rooms, crSaving, crRequests, crLast, crNavs>>
    /\ UNCHANGED <<flowVars, encVars, webVars, homeVars, rcVars, drVars>>

\* a call of onSubmit
OnSubmit ==
    LET sent == onSubmit(reservationForm)
    IN  /\ crNavs = {}
        /\ sent => Len(crRequests) < MaxCreates
        /\ crSaving' = IF valid(reservationForm) THEN sent ELSE crSaving
        /\ crRequests' = IF sent THEN Append(crRequests, "sent")
                         ELSE crRequests
        /\ crLast' = [called |-> TRUE, sent |-> sent,
                      turn |-> 1 - crLast.turn]
        /\ UNCHANGED <<reservationForm, rooms, crNavs>>
        /\ UNCHANGED <<flowVars, encVars, webVars, homeVars, rcVars, drVars>>

\* next of createReservation: saving reset and the dashboard asked of the
\* router
Created(i) ==
    LET store == Store(lsUser, lsToken)
        g == Activate("/admin/dashboard", hasStorage, store, clock, clock)
    IN  /\ i \in 1..Len(crRequests)
        /\ crRequests[i] = "sent"
        /\ crRequests' = [crRequests EXCEPT ![i] = "ok"]
        /\ crSaving' = FALSE
        /\ crNavs' = crNavs \cup {i}
        /\ lsUser' = g.after.user
        /\ lsToken' = g.after.admin_token
        /\ route' = IF g.allowed THEN "/admin/dashboard" ELSE g.navigated
        /\ lastNav' = Nav("/admin/dashboard", store, g, clock)
        /\ sessions' = IF g.allowed THEN {lsToken.exp} ELSE sessions
        /\ UNCHANGED <<hasStorage, clock, lastCall>>
        /\ UNCHANGED <<reservationForm, rooms, crLast>>
        /\ UNCHANGED <<userSubject, subscribed, selectedStructureId, lsSelected>>
        /\ UNCHANGED <<flowVars, encVars, rcVars, drVars>>

\* error of createReservation
CreateFailed(i) ==
    /\ i \in 1..Len(crRequests)
    /\ crRequests[i] = "sent"
    /\ crRequests' = [crRequests EXCEPT ![i] = "failed"]
    /\ crSaving' = FALSE
    /\ UNCHANGED <<reservationForm, rooms, crLast, crNavs>>
    /\ UNCHANGED <<flowVars, encVars, webVars, homeVars, rcVars, drVars>>

\* the form filled in and submitted, with a room of unknown capacity
NextCreate ==
    \/ \E room \in {NoRoom, RoomText, RoomObject(TRUE, Missing)} :
           SetRoom(room)
    \/ \E people \in {People("null", 0), People("number", 1)} :
           SetPeople(people)
    \/ \E startDate \in 0..MaxDay, endDate \in 0..MaxDay :
           SetDates(startDate, endDate)
    \/ \E others \in {"empty", "bademail", "ok"} : SetOthers(others)
    \/ OnSubmit
    \/ \E i \in 1..MaxCreates : Created(i)
    \/ \E i \in 1..MaxCreates : CreateFailed(i)
SpecCreate == InitCreate /\ [][NextCreate]_vars

\* the room and the number of people changed in any order, and submitted
NextCapacity ==
    \/ RoomsLoaded
    \/ \E room \in RoomValues : SetRoom(room)
    \/ \E people \in PeopleValues : SetPeople(people)
    \/ SetDates(1, MaxDay)
    \/ SetOthers("ok")
    \/ OnSubmit
    \/ \E i \in 1..MaxCreates : Created(i)
    \/ \E i \in 1..MaxCreates : CreateFailed(i)
SpecCapacity == InitCreate /\ [][NextCapacity]_vars

\* every required field of the form holds something
RequiredFilled(form) ==
    /\ form.others # "empty"
    /\ form.startDate # 0 /\ form.endDate # 0
    /\ form.roomName.kind # "empty"
    /\ form.numberOfPeople.kind # "null"

\* C22: onSubmit sends createReservation, and the response navigates to the
\* dashboard, only when the form is valid: every required field filled and
\* the start date not after the end date. With an invalid form no request
\* is sent and nothing navigates.
C22_SubmitOnlyValid ==
    [][/\ Len(crRequests') > Len(crRequests)
          => /\ crLast' # crLast
             /\ valid(reservationForm)
             /\ RequiredFilled(reservationForm)
             /\ reservationForm.startDate <= reservationForm.endDate
       /\ (crLast' # crLast /\ ~valid(reservationForm))
          => /\ ~crLast'.sent
             /\ crRequests' = crRequests
             /\ crNavs' = crNavs /\ route' = route /\ lastNav' = lastNav
       /\ (crNavs' # crNavs \/ route' # route)
          => \E i \in 1..Len(crRequests) :
                 /\ crRequests[i] = "sent" /\ crRequests'[i] = "ok"
                 /\ crNavs' = crNavs \cup {i}
                 /\ lastNav'.target = "/admin/dashboard"]_vars

\* a valid form has been submitted and the answer has opened the dashboard
C22_Witness ==
    /\ crLast.sent
    /\ crNavs # {}
    /\ route = "/admin/dashboard"
    /\ valid(reservationForm)
    /\ reservationForm.startDate = reservationForm.endDate

\* the number of people of the form exceeds the known capacity of its room
ExceedsCapacity(form) ==
    /\ form.roomName.kind = "object"
    /\ form.roomName.capacity.kind = "number"
    /\ form.roomName.capacity.n > 0
    /\ form.numberOfPeople.kind = "number"
    /\ form.numberOfPeople.n > form.roomName.capacity.n

\* C30: no createReservation is sent whose numberOfPeople exceeds the
\* capacity of the selected room, when that capacity is known and greater
\* than 0, in whatever order the room and the number were changed.
C30_WithinCapacity ==
    [][Len(crRequests') > Len(crRequests)
          => ~ExceedsCapacity(reservationForm)]_vars

\* onSubmit has sent nothing for a form, complete otherwise, whose number
\* of people exceeds the capacity of its room
C30_Witness ==
    /\ crLast.called /\ ~crLast.sent
    /\ ExceedsCapacity(reservationForm)
    /\ reservationForm.others = "ok"
    /\ reservationForm.startDate # 0 /\ reservationForm.endDate # 0
    /\ reservationForm.peopleErrors = {"exceedsCapacity"}

\* ------------------------------------------- DetailReservationComponent
MaxSaves == 2

\* values of statusOptions the model uses
Statuses == {"Pending", "Approved"}

\* const statusChanged of saveReservation
statusChanged(selected, stored) == selected # "none" /\ selected # stored

\* one call of saveReservation that got to updateReservation
Save(changed) == [phase |-> "update", statusChanged |-> changed,
                  status |-> "none"]

\* next of updateReservation that sends the status whether it changed or not
updateNext_always(save, selected) ==
    [save |-> [save EXCEPT !.phase = "status", !.status = selected],
     done |-> FALSE]

\* next of updateReservation: the status request with the status selected
\* by then, or the save ended
updateNext(save, selected) ==
    IF save.statusChanged
    THEN [save |-> [save EXCEPT !.phase = "status", !.status = selected],
          done |-> FALSE]
    ELSE [save |-> [save EXCEPT !.phase = "done"], done |-> TRUE]

\* the page showing a reservation loaded from the backend
InitDetail ==
    /\ FlowInit /\ batch = [r \in Runs |-> <<GuestRossi, GuestAnna, GuestRossi>>]
    /\ EncIdle /\ WebIdle /\ HomeIdle /\ RcIdle /\ CrIdle
    /\ editMode = FALSE
    /\ saving = FALSE
    /\ drServer \in Statuses
    /\ reservation_details = drServer
    /\ reservation_status = drServer
    /\ drFormOk = FALSE
    /\ drSaves = <<>>
    /\ drRefresh = 0

\* editReservation: edit mode, the form filled from the reservation
EditReservation ==
    /\ editMode' = TRUE
    /\ drFormOk' = TRUE
    /\ UNCHANGED <<saving, reservation_status, reservation_details, drSaves,
                   drRefresh, drServer>>
    /\ UNCHANGED <<flowVars, encVars, webVars, homeVars, rcVars, crVars>>

\* a field of the form edited
EditForm(ok) ==
    /\ editMode
    /\ drFormOk' = ok
    /\ UNCHANGED <<editMode, saving, reservation_status, reservation_details,
                   drSaves, drRefresh, drServer>>
    /\ UNCHANGED <<flowVars, encVars, webVars, homeVars, rcVars, crVars>>

\* onStatusChange
OnStatusChange(newStatus) ==
    /\ reservation_status' = newStatus
    /\ UNCHANGED <<editMode, saving, reservation_details, drFormOk, drSaves,
                   drRefresh, drServer>>
    /\ UNCHANGED <<flowVars, encVars, webVars, homeVars, rcVars, crVars>>

\* cancelEdit: edit mode left and the form reset
CancelEdit ==
    /\ editMode
    /\ editMode' = FALSE
    /\ drFormOk' = FALSE
    /\ UNCHANGED <<saving, reservation_status, reservation_details, drSaves,
                   drRefresh, drServer>>
    /\ UNCHANGED <<flowVars, encVars, webVars, homeVars, rcVars, crVars>>

\* a call of saveReservation
SaveReservation ==
    /\ drFormOk => Len(drSaves) < MaxSaves
    /\ saving' = IF drFormOk THEN TRUE ELSE saving
    /\ drSaves' =
          IF drFormOk
          THEN Append(drSaves, Save(statusChanged(reservation_status,
                                                  reservation_details)))
          ELSE drSaves
    /\ UNCHANGED <<editMode, reservation_status, reservation_details,
                   drFormOk, drRefresh, drServer>>
    /\ UNCHANGED <<flowVars, encVars, webVars, homeVars, rcVars, crVars>>

\* next of updateReservation of save i
UpdateOk(i) ==
    LET r == updateNext(drSaves[i], reservation_status)
    IN  /\ i \in 1..Len(drSaves)
        /\ drSaves[i].phase = "update"
        /\ drSaves' = [drSaves EXCEPT ![i] = r.save]
        /\ saving' = IF r.done THEN FALSE ELSE saving
        /\ editMode' = IF r.done THEN FALSE ELSE editMode
        /\ drRefresh' = IF r.done THEN drRefresh + 1 ELSE drRefresh
        /\ UNCHANGED <<reservation_status, reservation_details, drFormOk,
                       drServer>>
        /\ UNCHANGED <<flowVars, encVars, webVars, homeVars, rcVars, crVars>>

\* next of updateReservationStatus of save i
StatusOk(i) ==
    /\ i \in 1..Len(drSaves)
    /\ drSaves[i].phase = "status"
    /\ drSaves' = [drSaves EXCEPT ![i].phase = "done"]
    /\ drServer' = drSaves[i].status
    /\ saving' = FALSE
    /\ editMode' = FALSE
    /\ drRefresh' = drRefresh + 1
    /\ UNCHANGED <<reservation_status, reservation_details, drFormOk>>
    /\ UNCHANGED <<flowVars, encVars, webVars, homeVars, rcVars, crVars>>

\* error of updateReservation or of updateReservationStatus of save i
RequestFailed(i) ==
    /\ i \in 1..Len(drSaves)
    /\ drSaves[i].phase \in {"update", "status"}
    /\ drSaves' = [drSaves EXCEPT ![i].phase = "failed"]
    /\ saving' = FALSE
    /\ editMode' = TRUE
    /\ UNCHANGED <<reservation_status, reservation_details, drFormOk,
                   drRefresh, drServer>>
    /\ UNCHANGED <<flowVars, encVars, webVars, homeVars, rcVars, crVars>>

\* next of getAdminReservationById in refreshReservationData
Refreshed ==
    /\ drRefresh > 0
    /\ drRefresh' = drRefresh - 1
    /\ reservation_details' = drServer
    /\ reservation_status' = drServer
    /\ UNCHANGED <<editMode, saving, drFormOk, drSaves, drServer>>
    /\ UNCHANGED <<flowVars, encVars, webVars, homeVars, rcVars, crVars>>

\* error of getAdminReservationById: the form's values merged in, which
\* hold no status
RefreshFailed ==
    /\ drRefresh > 0
    /\ drRefresh' = drRefresh - 1
    /\ UNCHANGED <<editMode, saving, reservation_status, reservation_details,
                   drFormOk, drSaves, drServer>>
    /\ UNCHANGED <<flowVars, encVars, webVars, homeVars, rcVars, crVars>>

NextDetail ==
    \/ EditReservation
    \/ \E ok \in BOOLEAN : EditForm(ok)
    \/ \E newStatus \in Statuses : OnStatusChange(newStatus)
    \/ CancelEdit
    \/ SaveReservation
    \/ \E i \in 1..MaxSaves : UpdateOk(i)
    \/ \E i \in 1..MaxSaves : StatusOk(i)
    \/ \E i \in 1..MaxSaves : RequestFailed(i)
    \/ Refreshed
    \/ RefreshFailed
SpecDetail == InitDetail /\ [][NextDetail]_vars

Outstanding ==
    \E i \in 1..Len(drSaves) : drSaves[i].phase \in {"update", "status"}

\* C29: under any interleaving of saveReservation calls and backend
\* responses, saving is true whenever a request started by saveReservation
\* is outstanding and false whenever none is.
C29_SavingTracksRequests == saving <=> Outstanding

====
